---- MODULE Spec2Model ----
(***************************************************************************)
(* The minbpe comparison CLI (docker/python/cli.py): the five commands     *)
(* train / encode / decode / export / load over a byte-pair-encoding       *)
(* tokenizer, the JSON configuration record they exchange through files,   *)
(* and the tokenizer engine the CLI delegates to.                          *)
(*                                                                         *)
(* Text is a sequence of code points, a byte string a sequence of numbers  *)
(* in 0..255, a token list a sequence of token ids.  The model's texts use *)
(* letters, the space and punctuation only (no digits, no line breaks, no  *)
(* apostrophe), so the segmenter below covers every text of the model.     *)
(***************************************************************************)
EXTENDS Integers, Sequences, FiniteSets, TLC

\* ------------------------------------------------------------- bounds
\* Longest enumerated text (training text, text to encode).
MaxLen == 2
\* Most merges a training request may ask for (target sizes up to 256 + MaxMerges).
MaxMerges == 2
\* Longest token list given to decode on the command line.
MaxToks == 2

\* ---------------------------------------------------------- constants
\* The base byte alphabet: ids 0..255 are the single bytes.
BaseAlphabet == 256
\* U+FFFD, what decoding with errors='replace' substitutes.
Replacement == 65533

\* ------------------------------------------------------------ helpers
RECURSIVE Flatten(_)
Flatten(ss) == IF ss = <<>> THEN <<>> ELSE Head(ss) \o Flatten(Tail(ss))

Drop(s, n) == SubSeq(s, n + 1, Len(s))

Take(s, n) == SubSeq(s, 1, n)

IsPrefix(p, s) == Len(p) <= Len(s) /\ Take(s, Len(p)) = p

SetMax(S) == CHOOSE x \in S : \A y \in S : y <= x

SetMin(S) == CHOOSE x \in S : \A y \in S : x <= y

\* A result of an engine call: a value, or the exception it raised.
Ok(v) == [ok |-> TRUE, val |-> v, err |-> ""]

Fail(e) == [ok |-> FALSE, val |-> <<>>, err |-> e]

\* ------------------------------------------------------------- UTF-8
\* str.encode("utf-8") of one code point (the model has none above U+FFFF).
Utf8EncodeChar(c) ==
    IF c < 128 THEN <<c>>
    ELSE IF c < 2048 THEN <<192 + (c \div 64), 128 + (c % 64)>>
    ELSE <<224 + (c \div 4096), 128 + ((c \div 64) % 64), 128 + (c % 64)>>

RECURSIVE Utf8Encode(_)
Utf8Encode(text) ==
    IF text = <<>> THEN <<>>
    ELSE Utf8EncodeChar(Head(text)) \o Utf8Encode(Tail(text))

IsCont(b) == b >= 128 /\ b <= 191

\* Continuation bytes a lead byte asks for; -1 for a byte that cannot lead.
NeedCont(b) ==
    IF b < 128 THEN 0
    ELSE IF b >= 194 /\ b <= 223 THEN 1
    ELSE IF b >= 224 /\ b <= 239 THEN 2
    ELSE IF b >= 240 /\ b <= 244 THEN 3
    ELSE -1

\* The range the first continuation byte must lie in (no overlong forms, no
\* surrogates, nothing above U+10FFFF).
SecondLo(b) == IF b = 224 THEN 160 ELSE IF b = 240 THEN 144 ELSE 128

SecondHi(b) == IF b = 237 THEN 159 ELSE IF b = 244 THEN 143 ELSE 191

\* How many bytes from the head of bs form a valid prefix of one character.
RECURSIVE ValidPrefix(_, _, _)
ValidPrefix(bs, k, need) ==
    IF k > need + 1 \/ k > Len(bs) THEN k - 1
    ELSE IF k = 1 THEN ValidPrefix(bs, 2, need)
    ELSE IF k = 2 THEN
        IF bs[2] >= SecondLo(bs[1]) /\ bs[2] <= SecondHi(bs[1])
        THEN ValidPrefix(bs, 3, need) ELSE 1
    ELSE IF IsCont(bs[k]) THEN ValidPrefix(bs, k + 1, need) ELSE k - 1

LeadBits(b) ==
    IF b < 128 THEN b
    ELSE IF b <= 223 THEN b - 192
    ELSE IF b <= 239 THEN b - 224
    ELSE b - 240

RECURSIVE CodePoint(_, _, _)
CodePoint(bs, k, acc) ==
    IF k > Len(bs) THEN acc ELSE CodePoint(bs, k + 1, acc * 64 + (bs[k] - 128))

\* bytes.decode("utf-8", errors="replace"): every maximal malformed
\* subsequence becomes one U+FFFD.
RECURSIVE Utf8Decode(_)
Utf8Decode(bs) ==
    IF bs = <<>> THEN <<>>
    ELSE LET need == NeedCont(Head(bs)) IN
         IF need = -1 THEN <<Replacement>> \o Utf8Decode(Tail(bs))
         ELSE LET got == ValidPrefix(bs, 1, need) IN
              IF got = need + 1
              THEN <<CodePoint(Take(bs, got), 2, LeadBits(Head(bs)))>>
                       \o Utf8Decode(Drop(bs, got))
              ELSE <<Replacement>> \o Utf8Decode(Drop(bs, got))

\* --------------------------------------------------------- segmenter
\* Character classes of the split pattern (\p{L}, \s; the rest is punctuation).
IsLetter(c) == (c >= 65 /\ c <= 90) \/ (c >= 97 /\ c <= 122) \/ (c >= 192 /\ c <= 255)

IsSpace(c) == c = 32

IsPunct(c) == ~IsLetter(c) /\ ~IsSpace(c)

\* Length of the longest run from position i of characters of one class.
RECURSIVE RunLetters(_, _)
RunLetters(t, i) == IF i <= Len(t) /\ IsLetter(t[i]) THEN 1 + RunLetters(t, i + 1) ELSE 0

RECURSIVE RunSpaces(_, _)
RunSpaces(t, i) == IF i <= Len(t) /\ IsSpace(t[i]) THEN 1 + RunSpaces(t, i + 1) ELSE 0

RECURSIVE RunPunct(_, _)
RunPunct(t, i) == IF i <= Len(t) /\ IsPunct(t[i]) THEN 1 + RunPunct(t, i + 1) ELSE 0

\* Length of the chunk the split pattern matches at the head of t: a word with
\* at most one leading non-letter, a punctuation run with at most one leading
\* space, or a run of spaces that leaves the last one to the word after it.
ChunkLen(t) ==
    IF IsLetter(t[1]) THEN RunLetters(t, 1)
    ELSE IF Len(t) >= 2 /\ IsLetter(t[2]) THEN 1 + RunLetters(t, 2)
    ELSE IF IsPunct(t[1]) THEN RunPunct(t, 1)
    ELSE IF Len(t) >= 2 /\ IsPunct(t[2]) THEN 1 + RunPunct(t, 2)
    ELSE LET k == RunSpaces(t, 1) IN IF k = Len(t) THEN k ELSE k - 1

RECURSIVE SplitPattern(_)
SplitPattern(t) ==
    IF t = <<>> THEN <<>>
    ELSE LET n == ChunkLen(t) IN <<Take(t, n)>> \o SplitPattern(Drop(t, n))

\* The name of the one split pattern of the model (GPT4_SPLIT_PATTERN).
GPT4_SPLIT_PATTERN == "gpt4-split"

\* Segmenter: the chunks of a span, the whole span where no pattern is compiled.
Segment(tok, t) ==
    IF tok.compiled_pattern /\ tok.pattern = GPT4_SPLIT_PATTERN THEN SplitPattern(t)
    ELSE IF t = <<>> THEN <<>> ELSE <<t>>

\* -------------------------------------------------- special tokens
\* special_tokens is a dict: a set of <<string, id>> with the strings distinct.
SpecialIds(sp) == {e[2] : e \in sp}

SpecialOf(sp, id) == (CHOOSE e \in sp : e[2] = id)[1]

\* SpecialTokenSplitter: left to right, the longest special token that starts
\* here wins; everything else gathers into ordinary spans.
RECURSIVE SplitSpecial(_, _, _)
SplitSpecial(t, sp, acc) ==
    LET flush == IF acc = <<>> THEN <<>> ELSE <<[special |-> FALSE, span |-> acc, id |-> 0]>>
    IN
    IF t = <<>> THEN flush
    ELSE LET here == {e \in sp : e[1] /= <<>> /\ IsPrefix(e[1], t)} IN
         IF here = {} THEN SplitSpecial(Tail(t), sp, Append(acc, Head(t)))
         ELSE LET best == CHOOSE e \in here : \A o \in here : Len(o[1]) <= Len(e[1]) IN
              flush \o <<[special |-> TRUE, span |-> best[1], id |-> best[2]]>>
                    \o SplitSpecial(Drop(t, Len(best[1])), sp, <<>>)

\* ------------------------------------------------------ merge table
\* merges is a dict (pair -> id) in insertion order: a sequence of
\* <<left, right, id>> with the pairs distinct.
PairAt(m) == <<m[1], m[2]>>

HasPair(merges, p) == \E i \in 1..Len(merges) : PairAt(merges[i]) = p

\* Rank: the place of the pair's rule in the creation order.
RankOf(merges, p) == CHOOSE i \in 1..Len(merges) : PairAt(merges[i]) = p

PairsOf(ids) == {<<ids[i], ids[i + 1]>> : i \in 1..(Len(ids) - 1)}

CountPair(ids, p) == Cardinality({i \in 1..(Len(ids) - 1) : <<ids[i], ids[i + 1]>> = p})

\* Replace every non-overlapping occurrence of the pair, left to right.
RECURSIVE Merge(_, _, _)
Merge(ids, p, idx) ==
    IF Len(ids) < 2 THEN ids
    ELSE IF <<ids[1], ids[2]>> = p THEN <<idx>> \o Merge(Drop(ids, 2), p, idx)
    ELSE <<ids[1]>> \o Merge(Tail(ids), p, idx)

\* ByteVocabulary by replay: vocab holds the entries the rules wrote (any other
\* id below 256 is its own byte); a rule whose parent is not there yet cannot
\* be replayed.
VocabHas(vocab, id) == (id >= 0 /\ id < BaseAlphabet) \/ id \in DOMAIN vocab

VocabBytes(vocab, id) == IF id \in DOMAIN vocab THEN vocab[id] ELSE <<id>>

VocabSize(vocab) == BaseAlphabet + Cardinality(DOMAIN vocab \ (0..(BaseAlphabet - 1)))

RECURSIVE Replay(_, _, _)
Replay(merges, i, vocab) ==
    IF i > Len(merges) THEN Ok(vocab)
    ELSE LET m == merges[i] IN
         IF ~VocabHas(vocab, m[1]) \/ ~VocabHas(vocab, m[2]) THEN Fail("KeyError")
         ELSE Replay(merges, i + 1,
                     [id \in DOMAIN vocab \cup {m[3]} |->
                         IF id = m[3] THEN VocabBytes(vocab, m[1]) \o VocabBytes(vocab, m[2])
                         ELSE vocab[id]])

EmptyVocab == [id \in {} |-> <<>>]

build_vocab(merges) == Replay(merges, 1, EmptyVocab)

\* ----------------------------------------------------- byte shuffle
\* A dict of the byte permutation.  ktype and vtype are the Python types of its
\* keys and values: a dict read back from JSON has str keys.
\* inverted says the dict is map read from value to key.
NoTable ==
    [present |-> FALSE, ktype |-> "int", vtype |-> "int", inverted |-> FALSE,
     map |-> [b \in {} |-> 0]]

Bytes == 0..(BaseAlphabet - 1)

\* The pretrained variant's permutation of the 256 bytes.
GPT4Shuffle ==
    [present |-> TRUE, ktype |-> "int", vtype |-> "int", inverted |-> FALSE,
     map |-> [b \in Bytes |-> (b + 1) % BaseAlphabet]]

\* {v: k for k, v in table.items()}
InverseTable(t) ==
    [present |-> t.present, ktype |-> t.vtype, vtype |-> t.ktype,
     inverted |-> ~t.inverted, map |-> t.map]

TableHas(t, b) ==
    IF t.inverted THEN \E k \in DOMAIN t.map : t.map[k] = b ELSE b \in DOMAIN t.map

\* Where two keys share a value the later key wins, as in the comprehension.
TableGet(t, b) ==
    IF t.inverted THEN SetMax({k \in DOMAIN t.map : t.map[k] = b}) ELSE t.map[b]

\* bytes(table[b] for b in bs): a KeyError where the int b is no key, a
\* TypeError where a value is no int.
MapBytes(t, bs) ==
    IF ~t.present THEN Ok(bs)
    ELSE IF bs = <<>> THEN Ok(bs)
    ELSE IF t.ktype /= "int" \/ \E i \in 1..Len(bs) : ~TableHas(t, bs[i])
         THEN Fail("KeyError")
    ELSE IF t.vtype /= "int" THEN Fail("TypeError")
    ELSE Ok([i \in 1..Len(bs) |-> TableGet(t, bs[i])])

\* -------------------------------------------------------- tokenizers
Types == {"basic", "regex", "gpt4"}

\* Which variants carry which optional component.
HasCompiledPattern(type) == type \in {"regex", "gpt4"}

HasRegister(type) == type \in {"regex", "gpt4"}

\* The pretrained variant's fixed merge table (over permuted bytes).
GPT4Merges == << <<98, 98, 256>>, <<33, 256, 257>> >>

BasicTokenizer ==
    [type |-> "basic", merges |-> <<>>, vocab |-> EmptyVocab, special_tokens |-> {},
     pattern |-> "", compiled_pattern |-> FALSE,
     byte_shuffle |-> NoTable, inverse_byte_shuffle |-> NoTable]

RegexTokenizer ==
    [type |-> "regex", merges |-> <<>>, vocab |-> EmptyVocab, special_tokens |-> {},
     pattern |-> GPT4_SPLIT_PATTERN, compiled_pattern |-> TRUE,
     byte_shuffle |-> NoTable, inverse_byte_shuffle |-> NoTable]

GPT4Tokenizer ==
    [type |-> "gpt4", merges |-> GPT4Merges, vocab |-> build_vocab(GPT4Merges).val,
     special_tokens |-> {},
     pattern |-> GPT4_SPLIT_PATTERN, compiled_pattern |-> TRUE,
     byte_shuffle |-> GPT4Shuffle, inverse_byte_shuffle |-> InverseTable(GPT4Shuffle)]

\* ------------------------------------------------------------ trainer
RECURSIVE TotalCount(_, _, _)
TotalCount(chunks, i, p) ==
    IF i > Len(chunks) THEN 0 ELSE CountPair(chunks[i], p) + TotalCount(chunks, i + 1, p)

AllPairs(chunks) == UNION {PairsOf(chunks[i]) : i \in 1..Len(chunks)}

PairLess(p, q) == p[1] < q[1] \/ (p[1] = q[1] /\ p[2] <= q[2])

\* A trainer that breaks ties the other way: among equals the largest pair.
BestPair_LargestOnTie(chunks) ==
    CHOOSE p \in AllPairs(chunks) : \A q \in AllPairs(chunks) :
        \/ TotalCount(chunks, 1, p) > TotalCount(chunks, 1, q)
        \/ TotalCount(chunks, 1, p) = TotalCount(chunks, 1, q) /\ PairLess(q, p)

\* The pair to merge: the highest count, and among equals the smallest pair.
BestPair(chunks) ==
    CHOOSE p \in AllPairs(chunks) : \A q \in AllPairs(chunks) :
        \/ TotalCount(chunks, 1, p) > TotalCount(chunks, 1, q)
        \/ TotalCount(chunks, 1, p) = TotalCount(chunks, 1, q) /\ PairLess(p, q)

MergeAll(chunks, p, idx) == [i \in 1..Len(chunks) |-> Merge(chunks[i], p, idx)]

\* Step 3 of training: until the vocabulary has V entries or no pair is left.
RECURSIVE TrainLoop(_, _, _)
TrainLoop(chunks, merges, V) ==
    IF BaseAlphabet + Len(merges) >= V \/ AllPairs(chunks) = {}
    THEN [merges |-> merges, chunks |-> chunks]
    ELSE LET p == BestPair(chunks)
             idx == BaseAlphabet + Len(merges)
         IN TrainLoop(MergeAll(chunks, p, idx), Append(merges, <<p[1], p[2], idx>>), V)

\* The chunks of a text as byte ids.
ChunkBytes(tok, text) ==
    LET cs == Segment(tok, text) IN [i \in 1..Len(cs) |-> Utf8Encode(cs[i])]

\* tokenizer.train(text, vocab_size)
train(tok, text, V) ==
    IF tok.type = "gpt4" THEN Fail("InvalidOperation")
    ELSE IF V < BaseAlphabet THEN Fail("InvalidConfiguration")
    ELSE LET r == TrainLoop(ChunkBytes(tok, text), <<>>, V) IN
         Ok([tok EXCEPT !.merges = r.merges, !.vocab = build_vocab(r.merges).val])

\* ------------------------------------------------------------ encoder
\* Step 4 of encoding: merge the lowest-rank pair present, until none has a rule.
RECURSIVE EncodeIds(_, _)
EncodeIds(ids, merges) ==
    LET cand == {p \in PairsOf(ids) : HasPair(merges, p)} IN
    IF cand = {} THEN ids
    ELSE LET r == SetMin({RankOf(merges, p) : p \in cand}) IN
         EncodeIds(Merge(ids, PairAt(merges[r]), merges[r][3]), merges)

encode_chunk(tok, chunk) ==
    LET bs == MapBytes(tok.byte_shuffle, Utf8Encode(chunk)) IN
    IF ~bs.ok THEN bs ELSE Ok(EncodeIds(bs.val, tok.merges))

RECURSIVE EncodeChunks(_, _, _)
EncodeChunks(tok, cs, i) ==
    IF i > Len(cs) THEN Ok(<<>>)
    ELSE LET a == encode_chunk(tok, cs[i]) IN
         IF ~a.ok THEN a
         ELSE LET b == EncodeChunks(tok, cs, i + 1) IN
              IF ~b.ok THEN b ELSE Ok(a.val \o b.val)

RECURSIVE EncodeSegments(_, _, _)
EncodeSegments(tok, segs, i) ==
    IF i > Len(segs) THEN Ok(<<>>)
    ELSE LET a == IF segs[i].special THEN Ok(<<segs[i].id>>)
                  ELSE EncodeChunks(tok, Segment(tok, segs[i].span), 1)
         IN IF ~a.ok THEN a
            ELSE LET b == EncodeSegments(tok, segs, i + 1) IN
                 IF ~b.ok THEN b ELSE Ok(a.val \o b.val)

\* tokenizer.encode(text)
encode(tok, text) == EncodeSegments(tok, SplitSpecial(text, tok.special_tokens, <<>>), 1)

\* ------------------------------------------------------------ decoder
\* The bytes of one id: a special token's literal, or its vocabulary entry
\* with every byte inverse-permuted; an id that is neither is MalformedInput.
decode_id(tok, id) ==
    IF id \in SpecialIds(tok.special_tokens)
    THEN Ok(Utf8Encode(SpecialOf(tok.special_tokens, id)))
    ELSE IF VocabHas(tok.vocab, id)
    THEN MapBytes(tok.inverse_byte_shuffle, VocabBytes(tok.vocab, id))
    ELSE Fail("MalformedInput")

RECURSIVE DecodeBytes(_, _, _)
DecodeBytes(tok, ids, i) ==
    IF i > Len(ids) THEN Ok(<<>>)
    ELSE LET a == decode_id(tok, ids[i]) IN
         IF ~a.ok THEN a
         ELSE LET b == DecodeBytes(tok, ids, i + 1) IN
              IF ~b.ok THEN b ELSE Ok(a.val \o b.val)

\* tokenizer.decode(ids)
decode(tok, ids) ==
    LET bs == DecodeBytes(tok, ids, 1) IN
    IF ~bs.ok THEN bs ELSE Ok(Utf8Decode(bs.val))

\* ------------------------------------------------------ configuration
\* The JSON record of a tokenizer: type, vocab_size, merges (a list of
\* [[left, right], id]), special_tokens, pattern and, for gpt4, byte_shuffle.
NoConfig ==
    [type |-> "", vocab_size |-> 0, merges |-> <<>>, special_tokens |-> {},
     pattern |-> "", has_byte_shuffle |-> FALSE, byte_shuffle |-> NoTable]

create_tokenizer(tokenizer_type) ==
    IF tokenizer_type = "basic" THEN Ok(BasicTokenizer)
    ELSE IF tokenizer_type = "regex" THEN Ok(RegexTokenizer)
    ELSE IF tokenizer_type = "gpt4" THEN Ok(GPT4Tokenizer)
    ELSE Fail("ValueError")

\* An export that leaves the merges out of the record.
export_tokenizer_config_NoMerges(tokenizer, tokenizer_type) ==
    [type |-> tokenizer_type,
     vocab_size |-> VocabSize(tokenizer.vocab),
     merges |-> <<>>,
     special_tokens |-> tokenizer.special_tokens,
     pattern |-> tokenizer.pattern,
     has_byte_shuffle |-> tokenizer_type = "gpt4" /\ tokenizer.byte_shuffle.present,
     byte_shuffle |-> IF tokenizer_type = "gpt4" THEN tokenizer.byte_shuffle ELSE NoTable]

export_tokenizer_config(tokenizer, tokenizer_type) ==
    [type |-> tokenizer_type,
     vocab_size |-> VocabSize(tokenizer.vocab),
     merges |-> tokenizer.merges,
     special_tokens |-> tokenizer.special_tokens,
     pattern |-> tokenizer.pattern,
     has_byte_shuffle |-> tokenizer_type = "gpt4" /\ tokenizer.byte_shuffle.present,
     byte_shuffle |-> IF tokenizer_type = "gpt4" THEN tokenizer.byte_shuffle ELSE NoTable]

\* json.dump then json.load of a record: the keys of an object are strings, so
\* the int keys of byte_shuffle come back as str; lists and str keys come back
\* as they were.
JsonRoundTrip(config) ==
    [config EXCEPT !.byte_shuffle.ktype = IF config.byte_shuffle.present THEN "str" ELSE @]

\* {tuple(pair): idx for pair, idx in items}: a pair met again keeps its first
\* place and takes the later id.
RECURSIVE DictFromItems(_, _)
DictFromItems(items, acc) ==
    IF items = <<>> THEN acc
    ELSE LET m == Head(items) IN
         IF HasPair(acc, PairAt(m))
         THEN DictFromItems(Tail(items), [acc EXCEPT ![RankOf(acc, PairAt(m))] = m])
         ELSE DictFromItems(Tail(items), Append(acc, m))

\* tokenizer.register_special_tokens(special_tokens)
register_special_tokens(tok, sp) ==
    IF \E e \in sp, o \in sp : e /= o /\ e[2] = o[2] THEN Fail("DuplicateSpecialToken")
    ELSE IF \E e \in sp : VocabHas(tok.vocab, e[2]) THEN Fail("IdCollision")
    ELSE Ok([tok EXCEPT !.special_tokens = sp])

\* A load that sets the merges and forgets to rebuild the vocabulary.
LoadMerges_StaleVocab(tok, config) ==
    IF config.merges = <<>> THEN Ok(tok)
    ELSE Ok([tok EXCEPT !.merges = DictFromItems(config.merges, <<>>)])

LoadMerges(tok, config) ==
    IF config.merges = <<>> THEN Ok(tok)
    ELSE LET merges == DictFromItems(config.merges, <<>>)
             vocab == build_vocab(merges)
         IN IF ~vocab.ok THEN vocab
            ELSE Ok([tok EXCEPT !.merges = merges, !.vocab = vocab.val])

LoadSpecialTokens(tok, config) ==
    IF config.special_tokens = {} THEN Ok(tok)
    ELSE IF HasRegister(tok.type) THEN register_special_tokens(tok, config.special_tokens)
    ELSE Ok([tok EXCEPT !.special_tokens = config.special_tokens])

LoadPattern(tok, config) ==
    IF config.pattern = "" THEN tok
    ELSE [tok EXCEPT !.pattern = config.pattern,
                     !.compiled_pattern = HasCompiledPattern(tok.type)]

LoadByteShuffle(tok, config) ==
    IF tok.type = "gpt4" /\ config.has_byte_shuffle
    THEN [tok EXCEPT !.byte_shuffle = config.byte_shuffle,
                     !.inverse_byte_shuffle = InverseTable(config.byte_shuffle)]
    ELSE tok

load_tokenizer_from_config(config) ==
    LET t0 == create_tokenizer(config.type) IN
    IF ~t0.ok THEN t0
    ELSE LET t1 == LoadMerges(t0.val, config) IN
         IF ~t1.ok THEN t1
         ELSE LET t2 == LoadSpecialTokens(t1.val, config) IN
              IF ~t2.ok THEN t2
              ELSE Ok(LoadByteShuffle(LoadPattern(t2.val, config), config))

\* ------------------------------------------------------------- files
\* Three paths: the configuration file (--config, and --output of train), the
\* output file of encode, decode and export, and export's vocabulary file.
NoFile == [kind |-> "none", cfg |-> NoConfig, seq |-> <<>>, dump |-> EmptyVocab]

ConfigFile(config) == [NoFile EXCEPT !.kind = "config", !.cfg = JsonRoundTrip(config)]

TokensFile(tokens) == [NoFile EXCEPT !.kind = "tokens", !.seq = tokens]

TextFile(text) == [NoFile EXCEPT !.kind = "text", !.seq = text]

VocabFile(vocab) ==
    [NoFile EXCEPT !.kind = "vocab", !.dump = [id \in DOMAIN vocab |-> Utf8Decode(vocab[id])]]

\* ----------------------------------------------------------- results
NoResult ==
    [status |-> "", command |-> "", tokenizer_type |-> "", vocab_size |-> 0,
     tokens |-> <<>>, text |-> <<>>, round_trip_test |-> FALSE, error |-> ""]

ErrorResult(command, e) == [NoResult EXCEPT !.status = "error", !.command = command, !.error = e]

NoTokenizer == [BasicTokenizer EXCEPT !.type = ""]

\* What a handler leaves behind: its result, the files, its tokenizer object.
Outcome(r, f, t) == [result |-> r, files |-> f, tokenizer |-> t]

\* "Hello, world! This is a test."
test_text ==
    <<72, 101, 108, 108, 111, 44, 32, 119, 111, 114, 108, 100, 33, 32, 84, 104, 105,
      115, 32, 105, 115, 32, 97, 32, 116, 101, 115, 116, 46>>

\* open(args.config) and json.load
ReadConfig(f) == IF f.cfg.kind = "config" THEN Ok(f.cfg.cfg) ELSE Fail("FileNotFoundError")

\* The token list of --tokens: the file's JSON where it names a file, else the
\* argument's own JSON.
ReadTokens(a, f) ==
    IF ~a.tokens_file THEN Ok(a.tokens)
    ELSE IF f.out.kind = "tokens" THEN Ok(f.out.seq)
    ELSE Fail("JSONDecodeError")

\* ---------------------------------------------------------- handlers
handle_train_command(a, f) ==
    LET t0 == create_tokenizer(a.type) IN
    IF ~t0.ok THEN Outcome(ErrorResult("train", t0.err), f, NoTokenizer)
    ELSE LET t1 == IF a.type = "gpt4" THEN t0 ELSE train(t0.val, a.text, a.vocab_size) IN
         IF ~t1.ok THEN Outcome(ErrorResult("train", t1.err), f, t0.val)
         ELSE LET config == export_tokenizer_config(t1.val, a.type) IN
              Outcome([NoResult EXCEPT !.status = "success", !.command = "train",
                                       !.tokenizer_type = a.type,
                                       !.vocab_size = VocabSize(t1.val.vocab)],
                      [f EXCEPT !.cfg = ConfigFile(config)],
                      t1.val)

\* An encode handler that opens its output file before it encodes.
handle_encode_command_OpenFirst(a, f) ==
    LET config == ReadConfig(f)
        opened == [f EXCEPT !.out = TextFile(<<>>)]
    IN
    IF ~config.ok THEN Outcome(ErrorResult("encode", config.err), f, NoTokenizer)
    ELSE LET t == load_tokenizer_from_config(config.val) IN
         IF ~t.ok THEN Outcome(ErrorResult("encode", t.err), f, NoTokenizer)
         ELSE LET tokens == encode(t.val, a.text) IN
              IF ~tokens.ok THEN Outcome(ErrorResult("encode", tokens.err), opened, t.val)
              ELSE Outcome([NoResult EXCEPT !.status = "success", !.command = "encode",
                                            !.tokens = tokens.val],
                           [f EXCEPT !.out = TokensFile(tokens.val)],
                           t.val)

handle_encode_command(a, f) ==
    LET config == ReadConfig(f) IN
    IF ~config.ok THEN Outcome(ErrorResult("encode", config.err), f, NoTokenizer)
    ELSE LET t == load_tokenizer_from_config(config.val) IN
         IF ~t.ok THEN Outcome(ErrorResult("encode", t.err), f, NoTokenizer)
         ELSE LET tokens == encode(t.val, a.text) IN
              IF ~tokens.ok THEN Outcome(ErrorResult("encode", tokens.err), f, t.val)
              ELSE Outcome([NoResult EXCEPT !.status = "success", !.command = "encode",
                                            !.tokens = tokens.val],
                           [f EXCEPT !.out = TokensFile(tokens.val)],
                           t.val)

handle_decode_command(a, f) ==
    LET config == ReadConfig(f) IN
    IF ~config.ok THEN Outcome(ErrorResult("decode", config.err), f, NoTokenizer)
    ELSE LET t == load_tokenizer_from_config(config.val) IN
         IF ~t.ok THEN Outcome(ErrorResult("decode", t.err), f, NoTokenizer)
         ELSE LET tokens == ReadTokens(a, f) IN
              IF ~tokens.ok THEN Outcome(ErrorResult("decode", tokens.err), f, t.val)
              ELSE LET text == decode(t.val, tokens.val) IN
                   IF ~text.ok THEN Outcome(ErrorResult("decode", text.err), f, t.val)
                   ELSE Outcome([NoResult EXCEPT !.status = "success", !.command = "decode",
                                                 !.text = text.val],
                                [f EXCEPT !.out = TextFile(text.val)],
                                t.val)

handle_export_command(a, f) ==
    LET config == ReadConfig(f) IN
    IF ~config.ok THEN Outcome(ErrorResult("export", config.err), f, NoTokenizer)
    ELSE LET t == load_tokenizer_from_config(config.val) IN
         IF ~t.ok THEN Outcome(ErrorResult("export", t.err), f, NoTokenizer)
         ELSE LET f1 == IF a.vocab THEN [f EXCEPT !.vocab = VocabFile(t.val.vocab)] ELSE f
                  enhanced_config == export_tokenizer_config(t.val, config.val.type)
              IN Outcome([NoResult EXCEPT !.status = "success", !.command = "export",
                                          !.vocab_size = VocabSize(t.val.vocab)],
                         [f1 EXCEPT !.out = ConfigFile(enhanced_config)],
                         t.val)

handle_load_command(a, f) ==
    LET config == ReadConfig(f) IN
    IF ~config.ok THEN Outcome(ErrorResult("load", config.err), f, NoTokenizer)
    ELSE LET t == load_tokenizer_from_config(config.val) IN
         IF ~t.ok THEN Outcome(ErrorResult("load", t.err), f, NoTokenizer)
         ELSE LET tokens == encode(t.val, test_text) IN
              IF ~tokens.ok THEN Outcome(ErrorResult("load", tokens.err), f, t.val)
              ELSE LET decoded_text == decode(t.val, tokens.val) IN
                   IF ~decoded_text.ok
                   THEN Outcome(ErrorResult("load", decoded_text.err), f, t.val)
                   ELSE Outcome([NoResult EXCEPT !.status = "success", !.command = "load",
                                    !.tokenizer_type = config.val.type,
                                    !.vocab_size = VocabSize(t.val.vocab),
                                    !.round_trip_test = (test_text = decoded_text.val)],
                                f, t.val)

\* ------------------------------------------------------------ inputs
SeqsUpTo(S, n) == UNION {[1..k -> S] : k \in 0..n}

\* 'a', the space, and the two-byte 'e' with acute accent.
Chars == {97, 32, 233}

Texts == SeqsUpTo(Chars, MaxLen)

\* "aaabdaaabac"
ScenarioA == <<97, 97, 97, 98, 100, 97, 97, 97, 98, 97, 99>>

\* "<|end|>" and "a<|end|>b"
EndToken == <<60, 124, 101, 110, 100, 124, 62>>

ScenarioC == <<97>> \o EndToken \o <<98>>

\* "aaaa", "a aa a" and 'a' followed by two accented 'e'
FixedTexts == {<<97, 97, 97, 97>>, <<97, 32, 97, 97, 32, 97>>, <<97, 233, 233>>}

TrainTexts == Texts \cup FixedTexts \cup {ScenarioA}

EncodeTexts == Texts \cup FixedTexts \cup {ScenarioC, EndToken}

VocabSizes == (BaseAlphabet - 1)..(BaseAlphabet + MaxMerges)

TokenIds == {97, 195, 256, 257, 258, 999, 1000}

TokenLists == SeqsUpTo(TokenIds, MaxToks)

NoArgs ==
    [command |-> "", type |-> "", text |-> <<>>, vocab_size |-> 0,
     tokens_file |-> FALSE, tokens |-> <<>>, vocab |-> FALSE]

TrainArgs ==
    {[NoArgs EXCEPT !.command = "train", !.type = type, !.text = text, !.vocab_size = V] :
        type \in Types, text \in TrainTexts, V \in VocabSizes}

\* Configuration files a user may hand to the tool.
Config(type, merges, special_tokens) ==
    [NoConfig EXCEPT !.type = type, !.merges = merges, !.special_tokens = special_tokens,
                     !.vocab_size = BaseAlphabet + Len(merges)]

HandConfigs ==
    { Config("basic", << <<97, 97, 256>>, <<256, 97, 257>> >>, {}),
      Config("basic", << <<97, 97, 256>>, <<97, 32, 258>> >>, {}),
      Config("basic", << <<97, 97, 256>>, <<32, 97, 256>> >>, {}),
      Config("regex", << <<97, 97, 256>>, <<97, 97, 257>> >>, {}),
      Config("basic", << <<300, 97, 256>> >>, {}),
      Config("bogus", <<>>, {}),
      Config("basic", << <<97, 97, 256>> >>, {<<EndToken, 999>>}),
      [Config("regex", << <<97, 97, 256>> >>, {<<EndToken, 999>>})
          EXCEPT !.pattern = GPT4_SPLIT_PATTERN],
      Config("regex", << <<97, 97, 256>> >>, {<<EndToken, 256>>}),
      Config("gpt4", <<>>, {<<EndToken, 999>>}),
      [Config("gpt4", GPT4Merges, {<<EndToken, 999>>})
          EXCEPT !.has_byte_shuffle = TRUE, !.byte_shuffle = GPT4Shuffle] }

NoFiles == [cfg |-> NoFile, out |-> NoFile, vocab |-> NoFile]

\* The configuration files earlier train commands have written.
TrainedConfigs ==
    {f \in {handle_train_command(a, NoFiles).files.cfg : a \in TrainArgs} : f.kind = "config"}

\* What earlier runs may have left at the output path.
OldOutputs == {NoFile, TokensFile(<<256, 97>>), TextFile(<<97>>)}

\* -------------------------------------------------------------- state
\* One behaviour is one run of the program on the files earlier runs left.
VARIABLES
    files,        \* the three files
    args,         \* the parsed command line
    result,       \* the result printed
    exit_code,    \* the exit code of the process
    tokenizer,    \* the tokenizer object the handler held
    pc            \* "start" before main() runs, "exit" after

vars == <<files, args, result, exit_code, tokenizer, pc>>

Init ==
    /\ \E c \in {NoFile} \cup {ConfigFile(h) : h \in HandConfigs} \cup TrainedConfigs,
          o \in OldOutputs :
           files = [cfg |-> c, out |-> o, vocab |-> NoFile]
    /\ args = NoArgs
    /\ result = NoResult
    /\ exit_code = 0
    /\ tokenizer = NoTokenizer
    /\ pc = "start"

\* A main() that forgets the exit code of an error.
main_ExitZero(a, o) ==
    /\ pc = "start"
    /\ pc' = "exit"
    /\ args' = a
    /\ result' = o.result
    /\ files' = o.files
    /\ tokenizer' = o.tokenizer
    /\ exit_code' = 0

\* main(): dispatch on the command, print the result, exit 1 on an error.
main(a, o) ==
    /\ pc = "start"
    /\ pc' = "exit"
    /\ args' = a
    /\ result' = o.result
    /\ files' = o.files
    /\ tokenizer' = o.tokenizer
    /\ exit_code' = IF o.result.status = "error" THEN 1 ELSE 0

Train == \E a \in TrainArgs : main(a, handle_train_command(a, files))

Encode ==
    \E text \in EncodeTexts :
        LET a == [NoArgs EXCEPT !.command = "encode", !.text = text]
        IN main(a, handle_encode_command(a, files))

DecodeLiteral ==
    \E tokens \in TokenLists :
        LET a == [NoArgs EXCEPT !.command = "decode", !.tokens = tokens]
        IN main(a, handle_decode_command(a, files))

DecodeFile ==
    LET a == [NoArgs EXCEPT !.command = "decode", !.tokens_file = TRUE]
    IN main(a, handle_decode_command(a, files))

Export ==
    \E vocab \in BOOLEAN :
        LET a == [NoArgs EXCEPT !.command = "export", !.vocab = vocab]
        IN main(a, handle_export_command(a, files))

Load ==
    LET a == [NoArgs EXCEPT !.command = "load"]
    IN main(a, handle_load_command(a, files))

Health ==
    LET a == [NoArgs EXCEPT !.command = "health"]
    IN main(a, Outcome([NoResult EXCEPT !.status = "healthy"], files, NoTokenizer))

Next == Train \/ Encode \/ DecodeLiteral \/ DecodeFile \/ Export \/ Load \/ Health

Spec == Init /\ [][Next]_vars

\* ====================================================================
\* Properties
\* ====================================================================
Exited == pc = "exit"

Succeeded == Exited /\ result.status = "success"

\* A train command that trained: the variants that learn their merges.
Trained == Succeeded /\ args.command = "train" /\ args.type \in {"basic", "regex"}

\* The configuration files train wrote for those variants.
LearnedConfigs ==
    {f \in {handle_train_command(a, NoFiles).files.cfg :
                a \in {b \in TrainArgs : b.type \in {"basic", "regex"}}} : f.kind = "config"}

\* Does the text hold one of the special-token strings?
Occurs(s, t) == \E i \in 0..(Len(t) - Len(s)) : SubSeq(t, i + 1, i + Len(s)) = s

Holds(sp, t) == \E e \in sp : Occurs(e[1], t)

RoundTrips(tok, t) ==
    LET ids == encode(tok, t) IN ids.ok /\ decode(tok, ids.val) = Ok(t)

\* C1: round-trip.  The state a train command persisted, read back the way
\* every later command reads it, decodes the encoding of every text that holds
\* none of its special tokens to that very text; the load command's own test
\* of it (round_trip_test) reports so.
C1_RoundTrip ==
    /\ Trained =>
           LET S == load_tokenizer_from_config(files.cfg.cfg) IN
           /\ S.ok
           /\ \A t \in EncodeTexts \cup {test_text} :
                  ~Holds(S.val.special_tokens, t) => RoundTrips(S.val, t)
    /\ (Exited /\ args.command = "load" /\ files.cfg \in LearnedConfigs) =>
           result.status = "success" /\ result.round_trip_test

C1_Witness ==
    /\ Exited /\ args.command = "load" /\ files.cfg \in LearnedConfigs
    /\ Len(tokenizer.merges) = 2
    /\ result.round_trip_test

SameBehaviour(S, T) ==
    /\ \A t \in EncodeTexts : encode(S, t) = encode(T, t)
    /\ \A ids \in TokenLists : decode(S, ids) = decode(T, ids)

\* C2: export/import round-trip.  The tokenizer read back from the record a
\* command exported and wrote as JSON encodes and decodes every probe exactly
\* as the tokenizer the command exported, for all three variants.
C2_ExportImportRoundTrip ==
    (Succeeded /\ args.command \in {"train", "export"}) =>
        LET written == IF args.command = "train" THEN files.cfg.cfg ELSE files.out.cfg
            S == load_tokenizer_from_config(written)
        IN S.ok /\ SameBehaviour(S.val, tokenizer)

\* C3: a train request against the pretrained variant is rejected: its result
\* is a failure and it writes no configuration.
C3_TrainPretrainedRejected ==
    [][(args'.command = "train" /\ args'.type = "gpt4") =>
          (result'.status = "error" /\ files' = files)]_vars

\* The structural invariants of a merges list: result ids contiguous from 256
\* (so none twice) and no pair twice.
ValidMerges(m) ==
    /\ \A i \in 1..Len(m) : m[i][3] = BaseAlphabet + i - 1
    /\ \A i, j \in 1..Len(m) : PairAt(m[i]) = PairAt(m[j]) => i = j

\* C4: import rejects a merges list that breaks those invariants: a command
\* that loads such a configuration fails and holds no tokenizer.
C4_ImportRejectsInvalidMerges ==
    (Exited /\ args.command \in {"encode", "decode", "export", "load"}
        /\ files.cfg.kind = "config" /\ ~ValidMerges(files.cfg.cfg.merges)) =>
        (result.status = "error" /\ tokenizer = NoTokenizer)

\* The largest id the state can decode.
CurrentMaxId(tok) ==
    SetMax({BaseAlphabet - 1} \cup DOMAIN tok.vocab \cup SpecialIds(tok.special_tokens))

OutOfRange(tok, ids) ==
    \E i \in 1..Len(ids) : ids[i] < 0 \/ ids[i] > CurrentMaxId(tok)

\* C5: a decode command whose token list holds an id outside [0, currentMaxId]
\* of the state it loaded ends in a failure result with exit code 1 and leaves
\* every file as it was: no decoded text is written.
C5_DecodeRejectsUnknownId ==
    [][(/\ args'.command = "decode"
        /\ tokenizer'.type /= ""
        /\ ReadTokens(args', files).ok
        /\ OutOfRange(tokenizer', ReadTokens(args', files).val))
       => (result'.status = "error" /\ exit_code' = 1 /\ files' = files)]_vars

C5_Witness ==
    /\ Exited /\ args.command = "decode"
    /\ tokenizer.merges /= <<>>
    /\ \E i \in 1..Len(args.tokens) : args.tokens[i] = CurrentMaxId(tokenizer) + 1
    /\ result.status = "error" /\ result.error = "MalformedInput"
    /\ files.out.kind = "text"

\* The occurrence of s at offset i of t that no other occurrence of a special
\* token overlaps.
OccursAt(s, t, i) == i >= 0 /\ i + Len(s) <= Len(t) /\ SubSeq(t, i + 1, i + Len(s)) = s

CleanAt(sp, s, t, i) ==
    /\ OccursAt(s, t, i)
    /\ \A e \in sp : \A j \in 0..Len(t) :
           (OccursAt(e[1], t, j) /\ j < i + Len(s) /\ i < j + Len(e[1]))
               => (e[1] = s /\ j = i)

\* C6: special-token precedence.  Whatever variant the configuration names,
\* an encode command on a text holding the special token s (mapped to k) emits
\* k for that span, between the encodings of what is before it and after it,
\* and decoding k gives s back.
C6_SpecialTokenPrecedence ==
    (Exited /\ args.command = "encode" /\ tokenizer.type /= "") =>
        \A e \in tokenizer.special_tokens : \A i \in 0..Len(args.text) :
            CleanAt(tokenizer.special_tokens, e[1], args.text, i) =>
                LET before == encode(tokenizer, Take(args.text, i))
                    after == encode(tokenizer, Drop(args.text, i + Len(e[1])))
                IN /\ result.status = "success"
                   /\ before.ok /\ after.ok
                   /\ result.tokens = before.val \o <<e[2]>> \o after.val
                   /\ decode(tokenizer, <<e[2]>>) = Ok(e[1])

\* The training chunks after the first k rules of m.
RECURSIVE ChunksAfter(_, _, _)
ChunksAfter(chunks, m, k) ==
    IF k = 0 THEN chunks
    ELSE MergeAll(ChunksAfter(chunks, m, k - 1), PairAt(m[k]), m[k][3])

\* C7: vocabulary growth.  After a successful train with target size V >= 256
\* the vocabulary has 256 + (number of merges) entries, the merges have the ids
\* 256.., that number is V, or less than V only where no adjacent pair is left
\* in any chunk, and it is the vocab_size the command reports.
C7_VocabularyGrowth ==
    (Succeeded /\ args.command = "train" /\ args.vocab_size >= BaseAlphabet) =>
        LET m == files.cfg.cfg.merges
            n == VocabSize(tokenizer.vocab)
        IN /\ result.vocab_size = n
           /\ n = BaseAlphabet + Len(m)
           /\ \A i \in 1..Len(m) : m[i][3] = BaseAlphabet + i - 1
           /\ n <= args.vocab_size
           /\ n < args.vocab_size =>
                  AllPairs(ChunksAfter(ChunkBytes(tokenizer, args.text), m, Len(m))) = {}

\* Does an engine call of the command fail on these arguments and files?
EngineFails(a, f) ==
    LET S == load_tokenizer_from_config(f.cfg.cfg)
        toks == ReadTokens(a, f)
    IN IF a.command = "train"
       THEN a.type /= "gpt4" /\ ~train(create_tokenizer(a.type).val, a.text, a.vocab_size).ok
       ELSE IF a.command = "health" \/ f.cfg.kind /= "config" THEN FALSE
       ELSE IF ~S.ok THEN TRUE
       ELSE IF a.command = "encode" THEN ~encode(S.val, a.text).ok
       ELSE IF a.command = "decode" THEN toks.ok /\ ~decode(S.val, toks.val).ok
       ELSE IF a.command = "load"
       THEN ~encode(S.val, test_text).ok
                \/ ~decode(S.val, encode(S.val, test_text).val).ok
       ELSE FALSE

\* Is the command's output in its file?
OutputWritten(a, r, t, old, new) ==
    IF a.command = "train"
    THEN new = [old EXCEPT !.cfg = ConfigFile(export_tokenizer_config(t, a.type))]
    ELSE IF a.command = "encode" THEN new = [old EXCEPT !.out = TokensFile(r.tokens)]
    ELSE IF a.command = "decode" THEN new = [old EXCEPT !.out = TextFile(r.text)]
    ELSE IF a.command = "export"
    THEN new.out = ConfigFile(export_tokenizer_config(t, old.cfg.cfg.type)) /\ new.cfg = old.cfg
    ELSE new = old

\* C8: failure propagation.  A command whose engine call fails returns a result
\* tagged "error"; an error result comes with exit code 1 and every file as it
\* was; a result tagged "success" comes only with no engine failure and the
\* output written.
C8_FailurePropagation ==
    [][pc' = "exit" =>
          /\ EngineFails(args', files) => result'.status = "error"
          /\ result'.status = "error" => (exit_code' = 1 /\ files' = files)
          /\ result'.status = "success" =>
                 /\ exit_code' = 0
                 /\ ~EngineFails(args', files)
                 /\ OutputWritten(args', result', tokenizer', files, files')]_vars

C8_Witness ==
    /\ Exited /\ args.command = "encode"
    /\ result.status = "error" /\ result.error = "KeyError"
    /\ exit_code = 1
    /\ files.out.kind = "tokens"

\* C9: merge selection.  Every rule training learned merges a pair that was
\* adjacent then, with a count no other pair exceeded and, among the pairs of
\* that count, the smallest (left, right); the rule of rank i has id 256 + i.
\* On "aaabdaaabac" the first rule is ('a', 'a'), counted 4 times.
C9_MergeSelection ==
    Trained =>
        LET m == files.cfg.cfg.merges
            base == ChunkBytes(tokenizer, args.text)
        IN /\ \A i \in 1..Len(m) :
                  LET cs == ChunksAfter(base, m, i - 1)
                      p == PairAt(m[i])
                      n == TotalCount(cs, 1, p)
                  IN /\ p \in AllPairs(cs)
                     /\ m[i][3] = BaseAlphabet + i - 1
                     /\ \A q \in AllPairs(cs) :
                            \/ TotalCount(cs, 1, q) < n
                            \/ /\ TotalCount(cs, 1, q) = n
                               /\ (p[1] < q[1] \/ (p[1] = q[1] /\ p[2] <= q[2]))
           /\ (args.text = ScenarioA /\ args.vocab_size > BaseAlphabet) =>
                  (m[1] = <<97, 97, 256>> /\ TotalCount(base, 1, <<97, 97>>) = 4)

C9_Witness ==
    /\ Trained /\ args.text = ScenarioA
    /\ Len(files.cfg.cfg.merges) = 2
    /\ files.cfg.cfg.merges[2] = <<97, 98, 257>>

NoRulePair(ids, merges) == \A p \in PairsOf(ids) : ~HasPair(merges, p)

Range(f) == {f[i] : i \in DOMAIN f}

\* C10: encoder agreement with training.  The state a train command persisted
\* encodes the training text to the very ids training ended with; and whatever
\* an encode command encodes, no chunk is left with an adjacent pair that has
\* a rule.
C10_EncoderAgreesWithTraining ==
    /\ Trained =>
           LET S == load_tokenizer_from_config(files.cfg.cfg)
               m == tokenizer.merges
           IN /\ S.ok
              /\ encode(S.val, args.text) =
                     Ok(Flatten(ChunksAfter(ChunkBytes(tokenizer, args.text), m, Len(m))))
    /\ (Succeeded /\ args.command = "encode") =>
           /\ \A seg \in Range(SplitSpecial(args.text, tokenizer.special_tokens, <<>>)) :
                  ~seg.special =>
                      \A chunk \in Range(Segment(tokenizer, seg.span)) :
                          NoRulePair(encode_chunk(tokenizer, chunk).val, tokenizer.merges)
           /\ (~tokenizer.compiled_pattern /\ tokenizer.special_tokens = {}) =>
                  NoRulePair(result.tokens, tokenizer.merges)

C10_Witness ==
    /\ Trained /\ args.type = "regex"
    /\ args.text = <<97, 32, 97, 97, 32, 97>>
    /\ Len(tokenizer.merges) = 2
====
